---- MODULE Spec2Model ----
(***************************************************************************)
(* Docker goal executors of sdm-pack-docker:                                *)
(*   executeDockerBuild  (login, build, push, image link)                   *)
(*   doDockerRun         (probe, registry discovery, docker run, image link)*)
(* Several goal invocations of one registered goal run concurrently and     *)
(* share the options object given at registration.                          *)
(***************************************************************************)
EXTENDS Integers, Sequences, FiniteSets, TLC

\* ------------------------------------------------------------------ bounds
NumInvocations == 2
MaxExitCode == 1
MaxProviders == 2

Invocations == 1..NumInvocations
ExitCodes == 0..MaxExitCode

\* ------------------------------------------------------- JavaScript values
\* An absent property / the value undefined.
Undefined == "undefined"

\* Booleans of an optional boolean property (push?: boolean).
JsTrue == "true"
JsFalse == "false"

\* ToBoolean of a JavaScript value.
Truthy(v) == v \notin {Undefined, JsFalse, ""}

\* a || b
JsOr(a, b) == IF Truthy(a) THEN a ELSE b

FromBool(b) == IF b THEN JsTrue ELSE JsFalse

\* The characters of the strings the model draws registries from
\* (String(undefined) is "undefined").
Chars(s) ==
    CASE s = "" -> << >>
      [] s = "hub" -> <<"h", "u", "b">>
      [] s = "r.io" -> <<"r", ".", "i", "o">>
      [] s = Undefined -> <<"u", "n", "d", "e", "f", "i", "n", "e", "d">>

AlphaNumeric ==
    {"a", "b", "c", "d", "e", "f", "g", "h", "i", "j", "k", "l", "m",
     "n", "o", "p", "q", "r", "s", "t", "u", "v", "w", "x", "y", "z",
     "A", "B", "C", "D", "E", "F", "G", "H", "I", "J", "K", "L", "M",
     "N", "O", "P", "Q", "R", "S", "T", "U", "V", "W", "X", "Y", "Z",
     "0", "1", "2", "3", "4", "5", "6", "7", "8", "9"}

\* /[^A-Za-z0-9]/.test(s)
HasNonAlphaNumeric(s) == \E k \in 1..Len(Chars(s)) : Chars(s)[k] \notin AlphaNumeric

\* ------------------------------------------------------- execution results
\* Success of automation-client: { code: 0 }.
Success == [code |-> 0, message |-> Undefined]

ImageLinkFailed == [code |-> 1, message |-> "Image link failed"]

PushConfigurationMissing ==
    "Required configuration missing for pushing docker image. Please make sure to set 'registry', 'user' and 'password' in your configuration."

LoginNotice == "Running 'docker login'"
LoginSkipNotice == "Skipping 'docker login' because user and password are not configured"
PushSkipNotice == "Skipping 'docker push'"

\* What a spawned process resolves to: its exit code and, when it failed, the
\* diagnostic the process runner may attach.
ProcessMessages == {Undefined, "process output"}
ProcessResults ==
    {[code |-> 0, message |-> Undefined]}
        \cup [code : ExitCodes \ {0}, message : ProcessMessages]

\* The exit of a call still in flight, and of a call whose promise rejected.
Pending == -1
Rejected == -2

NoResult == [code |-> Pending, message |-> Undefined]

\* ------------------------------------------------------------ the options
\* DockerOptions of executeDockerBuild, as given to DockerBuild.with().
BuildOptions ==
    [push : {Undefined, JsTrue, JsFalse},
     registry : {Undefined, "hub", "r.io"},
     user : {Undefined, "alice"},
     password : {Undefined, "s3cret"},
     dockerfileFinder : {Undefined, "finder"}]

VARIABLES
    goal,            \* the registered executor: "build" or "run"
    registration,    \* the options as they were given at registration
    options,         \* the options object given at registration, shared by all invocations
    localMode,       \* isInLocalMode()
    pc,              \* where each invocation stands
    goalSetId,       \* goalEvent.goalSetId of each invocation
    optsToUse,       \* doDockerRun: the merged options of each invocation
    image,           \* executeDockerBuild: the image reference
    dockerfilePath,  \* executeDockerBuild: the Dockerfile path
    result,          \* the local variable result
    calls,           \* every process spawned and every external call made, in order
    log,             \* what was written to progressLog
    outcome,         \* how the invocation ended: a returned result or a thrown error
    registries,      \* readRegistries: the credentials collected so far
    toFetch,         \* readRegistries: the providers whose password is still to fetch
    projectConfig    \* dockerPush: docker.push.enabled as read from the project's configuration

vars == <<goal, registration, options, localMode, pc, goalSetId, optsToUse, image, dockerfilePath,
          result, calls, log, outcome, registries, toFetch, projectConfig>>

NoOutcome == [kind |-> "none", code |-> Pending, message |-> Undefined]
Returned(r) == [kind |-> "result", code |-> r.code, message |-> r.message]
Thrown(m) == [kind |-> "thrown", code |-> Pending, message |-> m]

\* One spawned process or external call, as issued.
Call(stage, command, env) ==
    [stage |-> stage, command |-> command, env |-> env, exit |-> Pending, response |-> Undefined]

\* The last call of invocation i completes with exit code c.
Settle(i, c) ==
    calls' = [calls EXCEPT ![i] = [@ EXCEPT ![Len(@)] = [@ EXCEPT !.exit = c]]]

Issue(i, call) == calls' = [calls EXCEPT ![i] = Append(@, call)]

Write(i, line) == log' = [log EXCEPT ![i] = Append(@, line)]

\* The repository, commit and workspace of invocation i's goal event.
SdmGoal(i) == [owner |-> "atomist", name |-> "app", sha |-> <<"sha", i>>, workspaceId |-> "T1"]

\* postLinkImageWebhook(owner, name, sha, image, workspaceId)
LinkCall(i, img) ==
    Call("link",
         <<"postLinkImageWebhook", SdmGoal(i).owner, SdmGoal(i).name, SdmGoal(i).sha, img,
           SdmGoal(i).workspaceId>>,
         Undefined)

\* ------------------------------------------------------ executeDockerBuild
\* readSdmVersion(owner, name, providerId, sha, branch, context): the version
\* the SDM recorded for the commit.
readSdmVersion(sdmGoal) == <<"1.0.0-", sdmGoal.sha>>

\* Mutant: the registry is only named while the push flag is not set.
DefaultDockerImageNameCreatorByPush(sdmGoal, opts) ==
    [registry |-> IF opts.push = Undefined THEN opts.registry ELSE Undefined,
     name |-> sdmGoal.name,
     version |-> readSdmVersion(sdmGoal)]

\* DefaultDockerImageNameCreator: the project name, the SDM version of the
\* commit, and the registry of the options.
DefaultDockerImageNameCreator(sdmGoal, opts) ==
    [registry |-> opts.registry, name |-> sdmGoal.name, version |-> readSdmVersion(sdmGoal)]

\* `${registry ? `${registry}/` : ""}${name}:${version}`, as the pieces joined.
ImageOf(imageName) ==
    (IF Truthy(imageName.registry) THEN <<imageName.registry, "/">> ELSE << >>)
        \o <<imageName.name, ":", imageName.version>>

\* Mutant: the Dockerfile finder is not asked.
DockerfilePathOfDefault(opts) == "Dockerfile"

\* options.dockerfileFinder ? options.dockerfileFinder(p) : "Dockerfile"
DockerfilePathOf(opts) ==
    IF Truthy(opts.dockerfileFinder) THEN "docker/Dockerfile" ELSE "Dockerfile"

\* The goal executor starts: image name and Dockerfile path are computed.
InvokeBuild(i) ==
    /\ goal = "build"
    /\ pc[i] = "idle"
    /\ image' = [image EXCEPT ![i] = ImageOf(DefaultDockerImageNameCreator(SdmGoal(i), options))]
    /\ dockerfilePath' = [dockerfilePath EXCEPT ![i] = DockerfilePathOf(options)]
    /\ pc' = [pc EXCEPT ![i] = "login"]
    /\ UNCHANGED <<goal, registration, options, localMode, goalSetId, optsToUse, result, calls, log, outcome,
                   registries, toFetch, projectConfig>>

\* Mutant: every configured registry is passed to docker login.
LoginArgsAlwaysRegistry(opts) ==
    <<"login", "--username", opts.user, "--password", opts.password>>
        \o (IF Truthy(opts.registry) THEN <<opts.registry>> ELSE << >>)

\* The arguments of docker login.
LoginArgs(opts) ==
    <<"login", "--username", opts.user, "--password", opts.password>>
        \o (IF HasNonAlphaNumeric(opts.registry) THEN <<opts.registry>> ELSE << >>)

\* Mutant: one of user and password is enough to log in.
HasCredentialsEither(opts) == Truthy(opts.user) \/ Truthy(opts.password)

\* if (options.user && options.password)
HasCredentials(opts) == Truthy(opts.user) /\ Truthy(opts.password)

\* Mutant: docker login is spawned and not waited for.
DockerLoginUnawaited(i) ==
    /\ pc[i] = "login"
    /\ IF HasCredentials(options)
       THEN /\ Write(i, LoginNotice)
            /\ Issue(i, Call("login", <<"docker">> \o LoginArgs(options), Undefined))
       ELSE /\ Write(i, LoginSkipNotice)
            /\ UNCHANGED calls
    /\ result' = [result EXCEPT ![i] = Success]
    /\ pc' = [pc EXCEPT ![i] = "build"]
    /\ UNCHANGED <<goal, registration, options, localMode, goalSetId, optsToUse, image, dockerfilePath, outcome,
                   registries, toFetch, projectConfig>>

\* dockerLogin: spawn docker login, or skip it without credentials.
DockerLogin(i) ==
    /\ pc[i] = "login"
    /\ IF HasCredentials(options)
       THEN /\ Write(i, LoginNotice)
            /\ Issue(i, Call("login", <<"docker">> \o LoginArgs(options), Undefined))
            /\ pc' = [pc EXCEPT ![i] = "loginWait"]
            /\ UNCHANGED result
       ELSE /\ Write(i, LoginSkipNotice)
            /\ result' = [result EXCEPT ![i] = Success]
            /\ pc' = [pc EXCEPT ![i] = "build"]
            /\ UNCHANGED calls
    /\ UNCHANGED <<goal, registration, options, localMode, goalSetId, optsToUse, image, dockerfilePath, outcome,
                   registries, toFetch, projectConfig>>

\* Mutant: the stage's code is not looked at.
ReturnOrContinueIgnoringCode(i, r, next) ==
    /\ pc' = [pc EXCEPT ![i] = next]
    /\ UNCHANGED outcome

\* Mutant: a failed stage is reported with a result of the executor's own.
ReturnOrContinueRewritten(i, r, next) ==
    IF r.code # 0
    THEN /\ outcome' = [outcome EXCEPT ![i] =
                            Returned([code |-> 1, message |-> "Docker command failed"])]
         /\ pc' = [pc EXCEPT ![i] = "done"]
    ELSE /\ pc' = [pc EXCEPT ![i] = next]
         /\ UNCHANGED outcome

\* if (result.code !== 0) { return result; }, else on to the next stage.
ReturnOrContinue(i, r, next) ==
    IF r.code # 0
    THEN /\ outcome' = [outcome EXCEPT ![i] = Returned(r)]
         /\ pc' = [pc EXCEPT ![i] = "done"]
    ELSE /\ pc' = [pc EXCEPT ![i] = next]
         /\ UNCHANGED outcome

\* Mutant: a process that failed is spawned once more.
ProcessExitRetrying(i, stage, next) ==
    /\ pc[i] = stage
    /\ \E r \in ProcessResults :
        /\ result' = [result EXCEPT ![i] = r]
        /\ IF r.code # 0 /\ Len(calls[i]) < 2
           THEN /\ calls' = [calls EXCEPT ![i] =
                                Append([@ EXCEPT ![Len(@)] = [@ EXCEPT !.exit = r.code]],
                                       @[Len(@)])]
                /\ UNCHANGED <<pc, outcome>>
           ELSE /\ Settle(i, r.code)
                /\ ReturnOrContinue(i, r, next)
    /\ UNCHANGED <<goal, registration, options, localMode, goalSetId, optsToUse, image, dockerfilePath, log,
                   registries, toFetch, projectConfig>>

\* A spawned process of stage `stage` exits; the stage's result is checked.
ProcessExit(i, stage, next) ==
    /\ pc[i] = stage
    /\ \E r \in ProcessResults :
        /\ Settle(i, r.code)
        /\ result' = [result EXCEPT ![i] = r]
        /\ ReturnOrContinue(i, r, next)
    /\ UNCHANGED <<goal, registration, options, localMode, goalSetId, optsToUse, image, dockerfilePath, log,
                   registries, toFetch, projectConfig>>

LoginExit(i) == ProcessExit(i, "loginWait", "build")

\* Mutant: the build stage spawns nothing and goes on to the push stage.
DockerBuildSkipped(i) ==
    /\ pc[i] = "build"
    /\ pc' = [pc EXCEPT ![i] = "push"]
    /\ UNCHANGED <<goal, registration, options, localMode, goalSetId, optsToUse, image, dockerfilePath,
                   result, calls, log, outcome, registries, toFetch, projectConfig>>

\* docker build . -f <dockerfilePath> -t <image>
DockerBuild(i) ==
    /\ pc[i] = "build"
    /\ Issue(i, Call("build", <<"docker", "build", ".", "-f", dockerfilePath[i], "-t", image[i]>>,
                     Undefined))
    /\ pc' = [pc EXCEPT ![i] = "buildWait"]
    /\ UNCHANGED <<goal, registration, options, localMode, goalSetId, optsToUse, image, dockerfilePath,
                   result, log, outcome, registries, toFetch, projectConfig>>

BuildExit(i) == ProcessExit(i, "buildWait", "push")

\* projectConfigurationValue(path, project, defaultValue): the value the
\* project's configuration file holds at path, the default when it holds none.
ProjectConfigurationValues == {Undefined, JsTrue, JsFalse}
projectConfigurationValue(configured, defaultValue) ==
    IF configured # Undefined THEN configured ELSE defaultValue

\* if (options.push === undefined) { options.push = !isInLocalMode(); }
DefaultPush(opts) ==
    IF opts.push = Undefined THEN [opts EXCEPT !.push = FromBool(~localMode)] ELSE opts

\* The condition of the push branch:
\* projectConfigurationValue("docker.push.enabled", project, options.push || true)
PushEnabled(opts, configured) ==
    Truthy(projectConfigurationValue(configured, JsOr(opts.push, JsTrue)))

\* Mutant: only the absence of both user and password counts.
PushConfigMissingBoth(opts) == ~Truthy(opts.user) /\ ~Truthy(opts.password)

\* if (!options.user || !options.password)
PushConfigMissing(opts) == ~Truthy(opts.user) \/ ~Truthy(opts.password)

\* dockerPush: default the push flag, then push, fail for missing
\* configuration, or skip.
DockerPush(i) ==
    /\ pc[i] = "push"
    /\ options' = DefaultPush(options)
    /\ \E configured \in ProjectConfigurationValues :
        /\ projectConfig' = [projectConfig EXCEPT ![i] = configured]
        /\ IF PushEnabled(options', configured)
           THEN IF PushConfigMissing(options')
                THEN /\ Write(i, PushConfigurationMissing)
                     /\ result' = [result EXCEPT ![i] =
                                       [code |-> 1, message |-> PushConfigurationMissing]]
                     /\ ReturnOrContinue(i, result'[i], "link")
                     /\ UNCHANGED calls
                ELSE /\ Issue(i, Call("push", <<"docker", "push", image[i]>>, Undefined))
                     /\ pc' = [pc EXCEPT ![i] = "pushWait"]
                     /\ UNCHANGED <<result, log, outcome, registries, toFetch>>
           ELSE /\ Write(i, PushSkipNotice)
                /\ result' = [result EXCEPT ![i] = Success]
                /\ ReturnOrContinue(i, Success, "link")
                /\ UNCHANGED calls
    /\ UNCHANGED <<goal, registration, localMode, goalSetId, optsToUse, image, dockerfilePath, registries, toFetch>>

PushExit(i) == ProcessExit(i, "pushWait", "link")

\* 4. create image link
PostLinkBuild(i) ==
    /\ goal = "build"
    /\ pc[i] = "link"
    /\ Issue(i, LinkCall(i, image[i]))
    /\ pc' = [pc EXCEPT ![i] = "linkWait"]
    /\ UNCHANGED <<goal, registration, options, localMode, goalSetId, optsToUse, image, dockerfilePath,
                   result, log, outcome, registries, toFetch, projectConfig>>

\* Mutant: the answer of postLinkImageWebhook is not looked at.
LinkResultIgnored(r, linked) == r

\* The goal's result once postLinkImageWebhook has returned linked.
LinkResult(r, linked) == IF linked THEN r ELSE ImageLinkFailed

\* postLinkImageWebhook returns: the stage result, or "Image link failed".
LinkReturn(i) ==
    /\ pc[i] = "linkWait"
    /\ \E linked \in BOOLEAN :
        /\ Settle(i, IF linked THEN 0 ELSE 1)
        /\ outcome' = [outcome EXCEPT ![i] = Returned(LinkResult(result[i], linked))]
    /\ pc' = [pc EXCEPT ![i] = "done"]
    /\ UNCHANGED <<goal, registration, options, localMode, goalSetId, optsToUse, image, dockerfilePath,
                   result, log, registries, toFetch, projectConfig>>

\* ------------------------------------------------------------- doDockerRun
\* A DockerRegistry with and without credentials.
RegistryWithLogin ==
    [registry |-> "r.io", user |-> "alice", password |-> "s3cret", label |-> "r", display |-> "false"]
RegistryWithoutLogin ==
    [registry |-> "r.io", user |-> Undefined, password |-> Undefined, label |-> "r", display |-> "false"]

\* DockerOptionsPlus after DockerExec.with() merged the defaults in.
RunArguments ==
    {[builderArgs |-> << >>, programArgs |-> << >>],
     [builderArgs |-> <<"--rm", "-t">>, programArgs |-> <<"a", "b">>]}

RunOptions ==
    {[builder |-> b, config |-> c, registry |-> r, builderArgs |-> a.builderArgs,
      builderPath |-> "hello-world", programArgs |-> a.programArgs] :
        b \in {"docker", "kaniko", "other"},
        c \in {Undefined, "auths"},
        r \in {<< >>, <<RegistryWithLogin>>, <<RegistryWithoutLogin>>},
        a \in RunArguments}

\* mergeOptions(options, {}, "docker.build"): a deep copy of the options.
mergeOptions(opts) == opts

\* A URL as its pieces: <<scheme, "//", host, path>>; without scheme it does not parse.
ValidUrl(url) == Len(url) >= 3 /\ url[2] = "//"
\* new URL(url).host
UrlHost(url) == url[3]

\* The registry providers the credential store may hold, in the order in
\* which it lists them.
ProviderList ==
    <<[name |-> "gcr", url |-> <<"https:", "//", "gcr.io", "/v2">>, credential |-> "c1"],
      [name |-> "quay", url |-> <<"https:", "//", "quay.io:443", "/">>, credential |-> "c3"],
      [name |-> "raw", url |-> <<"r.io">>, credential |-> "c2"]>>

ProviderPool == {ProviderList[k] : k \in 1..Len(ProviderList)}

\* The providers of S as the store lists them.
Listed(S) == LET Held(provider) == provider \in S IN SelectSeq(ProviderList, Held)

\* What the DockerRegistryProvider query resolves to: the list of the
\* providers the store holds, at most MaxProviders of them.
ProviderResponses == {Listed(S) : S \in {T \in SUBSET ProviderPool : Cardinality(T) <= MaxProviders}}

\* What the Password query resolves to: a list of passwords.
PasswordResponses ==
    {<< >>,
     << [owner |-> [login |-> "bot"], secret |-> "token"] >>}

QueryFailed == "GraphQL query failed"
\* `Configured Docker image builder '${cmd}' is not available`
UnavailableError(cmd) ==
    IF cmd = "docker"
    THEN "Configured Docker image builder 'docker' is not available"
    ELSE "Configured Docker image builder '/kaniko/executor' is not available"
KanikoUnimplemented == "runWithKaniko unimplemented."
InvalidUrl == "TypeError: Invalid URL"
NoPassword == "TypeError: Cannot read property 'owner' of undefined"

\* The probe command of the configured builder.
ProbeCommand(builder) ==
    IF builder = "docker" THEN <<"docker", "help">> ELSE <<"/kaniko/executor", "--help">>

\* The goal executor starts: the options are merged and the builder is probed.
InvokeRun(i) ==
    /\ goal = "run"
    /\ pc[i] = "idle"
    /\ optsToUse' = [optsToUse EXCEPT ![i] = mergeOptions(options)]
    /\ IF optsToUse'[i].builder \in {"docker", "kaniko"}
       THEN /\ Issue(i, Call("probe", ProbeCommand(optsToUse'[i].builder), Undefined))
            /\ pc' = [pc EXCEPT ![i] = "probeWait"]
       ELSE /\ pc' = [pc EXCEPT ![i] = "discover"]
            /\ UNCHANGED calls
    /\ UNCHANGED <<goal, registration, options, localMode, goalSetId, image, dockerfilePath, result, log,
                   outcome, registries, toFetch, projectConfig>>

\* Mutant: the executor ends without result and without error.
ThrowLost(i, message) ==
    /\ pc' = [pc EXCEPT ![i] = "done"]
    /\ UNCHANGED outcome

\* An error is thrown out of the executor.
Throw(i, message) ==
    /\ outcome' = [outcome EXCEPT ![i] = Thrown(message)]
    /\ pc' = [pc EXCEPT ![i] = "done"]

\* Mutant: the rejection of the probe is swallowed.
ProbeFailedSwallowed(i, cmd) ==
    /\ pc' = [pc EXCEPT ![i] = "discover"]
    /\ UNCHANGED outcome

\* catch (e) { throw new Error(...) }
ProbeFailed(i, cmd) == Throw(i, UnavailableError(cmd))

\* checkIsBuilderAvailable: spawnLog resolves, whatever the exit code of the
\* probe (its result is dropped), or rejects, and then the builder is reported
\* as not available.
CheckIsBuilderAvailable(i) ==
    /\ pc[i] = "probeWait"
    /\ \E exit \in {0, Rejected} :
        /\ Settle(i, exit)
        /\ IF exit = Rejected
           THEN ProbeFailed(i, calls[i][Len(calls[i])].command[1])
           ELSE /\ pc' = [pc EXCEPT ![i] = "discover"]
                /\ UNCHANGED outcome
    /\ UNCHANGED <<goal, registration, options, localMode, goalSetId, optsToUse, image, dockerfilePath,
                   result, log, registries, toFetch, projectConfig>>

\* toArray(optsToUse.registry || [])
RegistryArray(opts) == opts.registry

\* Mutant: configured registries do not stop the discovery.
NeedsDiscoveryWithoutConfig(opts) == ~Truthy(opts.config)

\* if (!optsToUse.config && toArray(optsToUse.registry || []).length === 0)
NeedsDiscovery(opts) == ~Truthy(opts.config) /\ Len(RegistryArray(opts)) = 0

QueryProviders == Call("queryProviders", <<"DockerRegistryProvider">>, Undefined)
QueryPassword(provider) == Call("queryPassword", <<"Password", provider.credential>>, Undefined)

\* Check the graph for registries if we don't have any configured.
Discover(i) ==
    /\ pc[i] = "discover"
    /\ IF NeedsDiscovery(optsToUse[i])
       THEN /\ Issue(i, QueryProviders)
            /\ registries' = [registries EXCEPT ![i] = << >>]
            /\ pc' = [pc EXCEPT ![i] = "providersWait"]
       ELSE /\ pc' = [pc EXCEPT ![i] = "dispatch"]
            /\ UNCHANGED <<calls, registries>>
    /\ UNCHANGED <<goal, registration, options, localMode, goalSetId, optsToUse, image, dockerfilePath,
                   result, log, outcome, toFetch, projectConfig>>

\* readRegistries goes on with the providers left: the next Password query,
\* or the return of the list, which becomes optsToUse.registry.
FetchNext(i, answer, found, left) ==
    /\ registries' = [registries EXCEPT ![i] = found]
    /\ toFetch' = [toFetch EXCEPT ![i] = left]
    /\ IF left = << >>
       THEN /\ optsToUse' = [optsToUse EXCEPT ![i] = [@ EXCEPT !.registry = found]]
            /\ pc' = [pc EXCEPT ![i] = "dispatch"]
            /\ calls' = [calls EXCEPT ![i] =
                            [@ EXCEPT ![Len(@)] = [@ EXCEPT !.exit = 0, !.response = answer]]]
       ELSE /\ calls' = [calls EXCEPT ![i] =
                            Append([@ EXCEPT ![Len(@)] = [@ EXCEPT !.exit = 0, !.response = answer]],
                                   QueryPassword(Head(left)))]
            /\ pc' = [pc EXCEPT ![i] = "passwordWait"]
            /\ UNCHANGED optsToUse
    /\ UNCHANGED outcome

\* Mutant: a rejected query counts as "no registries" and the executor goes on.
QueryRejectedIgnored(i) ==
    /\ pc' = [pc EXCEPT ![i] = "dispatch"]
    /\ UNCHANGED outcome

\* await ctx.graphClient.query(...) rejects: nothing catches it.
QueryRejected(i) == Throw(i, QueryFailed)

\* The DockerRegistryProvider query returns.
ProvidersReturn(i) ==
    /\ pc[i] = "providersWait"
    /\ \/ /\ Settle(i, Rejected)
          /\ QueryRejected(i)
          /\ UNCHANGED <<optsToUse, registries, toFetch>>
       \/ \E response \in ProviderResponses : FetchNext(i, response, << >>, response)
    /\ UNCHANGED <<goal, registration, options, localMode, goalSetId, image, dockerfilePath, result, log,
                   projectConfig>>

\* Mutant: the registry is the first piece of the provider's URL, its scheme.
RegistryOfWithScheme(provider, password) ==
    [registry |-> provider.url[1],
     user |-> password.owner.login,
     password |-> password.secret,
     label |-> provider.name,
     display |-> "false"]

\* The credential readRegistries makes of a provider and its password.
RegistryOf(provider, password) ==
    [registry |-> UrlHost(provider.url),
     user |-> password.owner.login,
     password |-> password.secret,
     label |-> provider.name,
     display |-> "false"]

\* The Password query of the provider at hand returns.
PasswordReturn(i) ==
    /\ pc[i] = "passwordWait"
    /\ LET provider == Head(toFetch[i]) IN
       \/ /\ Settle(i, Rejected)
          /\ QueryRejected(i)
          /\ UNCHANGED <<optsToUse, registries, toFetch>>
       \/ \E response \in PasswordResponses :
            IF ~ValidUrl(provider.url)
            THEN /\ Settle(i, 0)
                 /\ Throw(i, InvalidUrl)
                 /\ UNCHANGED <<optsToUse, registries, toFetch>>
            ELSE IF response = << >>
            THEN /\ Settle(i, 0)
                 /\ Throw(i, NoPassword)
                 /\ UNCHANGED <<optsToUse, registries, toFetch>>
            ELSE FetchNext(i, response, Append(registries[i], RegistryOf(provider, response[1])),
                           Tail(toFetch[i]))
    /\ UNCHANGED <<goal, registration, options, localMode, goalSetId, image, dockerfilePath, result, log,
                   projectConfig>>

\* The DOCKER_CONFIG of no path: dockerConfigPath returned undefined.
NoPath == <<Undefined>>

\* dockerConfigPath(options, goalEvent)
dockerConfigPath(opts, g) ==
    IF \E k \in 1..Len(RegistryArray(opts)) :
            Truthy(RegistryArray(opts)[k].user) /\ Truthy(RegistryArray(opts)[k].password)
    THEN <<"~", ".docker">>
    ELSE IF Truthy(opts.config)
    THEN <<"~", ".docker-", g>>
    ELSE NoPath

\* ["run", ...builderArgs, builderPath, ...programArgs]
RunArgs(opts) == <<"run">> \o opts.builderArgs \o <<opts.builderPath>> \o opts.programArgs

\* ["run"]: the arguments in the file's second definition of runWithDocker.
ExecRunArgs(opts) == <<"run">>

\* The file defines runWithDocker twice; the build decides which definition
\* a call runs.
RunArgsDefined(opts) == {RunArgs(opts), ExecRunArgs(opts)}

\* Mutant: the kaniko path does nothing and goes on.
runWithKanikoSilent(i) ==
    /\ pc' = [pc EXCEPT ![i] = "link"]
    /\ UNCHANGED <<calls, outcome>>

\* runWithKaniko: throw Error("runWithKaniko unimplemented.")
runWithKaniko(i) ==
    /\ Throw(i, KanikoUnimplemented)
    /\ UNCHANGED calls

\* let result = {code: 0}; then the builder is dispatched on: docker run,
\* the unimplemented kaniko, or neither.
Dispatch(i) ==
    /\ pc[i] = "dispatch"
    /\ result' = [result EXCEPT ![i] = Success]
    /\ IF optsToUse[i].builder = "docker"
       THEN /\ \E args \in RunArgsDefined(optsToUse[i]) :
                    Issue(i, Call("run", <<"docker">> \o args,
                                  dockerConfigPath(optsToUse[i], goalSetId[i])))
            /\ pc' = [pc EXCEPT ![i] = "runWait"]
            /\ UNCHANGED outcome
       ELSE IF optsToUse[i].builder = "kaniko"
       THEN runWithKaniko(i)
       ELSE /\ pc' = [pc EXCEPT ![i] = "link"]
            /\ UNCHANGED <<calls, outcome>>
    /\ UNCHANGED <<goal, registration, options, localMode, goalSetId, optsToUse, image, dockerfilePath,
                   log, registries, toFetch, projectConfig>>

RunExit(i) == ProcessExit(i, "runWait", "link")

\* 4. create image link, with images[0] of the empty images.
PostLinkRun(i) ==
    /\ goal = "run"
    /\ pc[i] = "link"
    /\ Issue(i, LinkCall(i, Undefined))
    /\ pc' = [pc EXCEPT ![i] = "linkWait"]
    /\ UNCHANGED <<goal, registration, options, localMode, goalSetId, optsToUse, image, dockerfilePath,
                   result, log, outcome, registries, toFetch, projectConfig>>

\* ------------------------------------------------------------------ system
InitInvocations ==
    /\ pc = [i \in Invocations |-> "idle"]
    /\ goalSetId = [i \in Invocations |-> i]
    /\ optsToUse = [i \in Invocations |-> Undefined]
    /\ image = [i \in Invocations |-> Undefined]
    /\ dockerfilePath = [i \in Invocations |-> Undefined]
    /\ result = [i \in Invocations |-> NoResult]
    /\ calls = [i \in Invocations |-> << >>]
    /\ log = [i \in Invocations |-> << >>]
    /\ outcome = [i \in Invocations |-> NoOutcome]
    /\ registries = [i \in Invocations |-> << >>]
    /\ toFetch = [i \in Invocations |-> << >>]
    /\ projectConfig = [i \in Invocations |-> Undefined]

\* A DockerBuild goal registered with some options, in local mode or not.
InitBuild ==
    /\ goal = "build"
    /\ options \in BuildOptions
    /\ registration = options
    /\ localMode \in BOOLEAN
    /\ InitInvocations

\* A DockerExec goal registered with some options.
InitRun ==
    /\ goal = "run"
    /\ options \in RunOptions
    /\ registration = options
    /\ localMode = FALSE
    /\ InitInvocations

Init == InitBuild \/ InitRun

Next ==
    \E i \in Invocations :
        \/ InvokeBuild(i)
        \/ DockerLogin(i)
        \/ LoginExit(i)
        \/ DockerBuild(i)
        \/ BuildExit(i)
        \/ DockerPush(i)
        \/ PushExit(i)
        \/ PostLinkBuild(i)
        \/ InvokeRun(i)
        \/ CheckIsBuilderAvailable(i)
        \/ Discover(i)
        \/ ProvidersReturn(i)
        \/ PasswordReturn(i)
        \/ Dispatch(i)
        \/ RunExit(i)
        \/ PostLinkRun(i)
        \/ LinkReturn(i)

Spec == Init /\ [][Next]_vars
\* ================================================================== claims
Done(i) == pc[i] = "done"
LastCall(i) == calls[i][Len(calls[i])]
HasCall(i, stage) == \E k \in 1..Len(calls[i]) : calls[i][k].stage = stage
CallOf(i, stage) == calls[i][CHOOSE k \in 1..Len(calls[i]) : calls[i][k].stage = stage]
\* The stages whose result the executor checks for a nonzero code.
ResultStages == {"login", "build", "push", "run"}
Failed(call) == call.exit \notin {0, Pending}

\* C1: a stage that returned a nonzero code is the last thing the invocation
\* did: no call follows a failed login, build, push or run, a nonzero stage
\* result ends the invocation, and the image link is only called while the
\* stage result is code 0.
C1_FailedStageIsLast ==
    \A i \in Invocations :
        /\ \A k \in 1..Len(calls[i]) :
            (calls[i][k].stage \in ResultStages /\ Failed(calls[i][k])) => k = Len(calls[i])
        /\ result[i].code > 0 => Done(i)
        /\ HasCall(i, "link") => result[i].code = 0

\* A login that succeeded, then a build that failed, and nothing after it.
C1_Witness ==
    \E i \in Invocations :
        /\ Done(i)
        /\ Len(calls[i]) = 2
        /\ calls[i][1].stage = "login" /\ calls[i][1].exit = 0
        /\ calls[i][2].stage = "build" /\ Failed(calls[i][2])

\* C2: when login, build, push or docker run exits nonzero, the goal's result
\* is a returned result with that exit code and that stage's message.
C2_FailedStageResultIsFinal ==
    \A i \in Invocations :
        (/\ Len(calls[i]) > 0
         /\ LastCall(i).stage \in ResultStages
         /\ Failed(LastCall(i)))
        => /\ outcome[i].kind = "result"
           /\ outcome[i].code = LastCall(i).exit
           /\ result[i].code = LastCall(i).exit
           /\ outcome[i].message = result[i].message

\* A push that failed with a diagnostic, which is the goal's result.
C2_Witness ==
    \E i \in Invocations :
        /\ Len(calls[i]) > 0
        /\ LastCall(i).stage = "push"
        /\ Failed(LastCall(i))
        /\ outcome[i].message = "process output"

\* The push stage of invocation i has run after a build that exited 0.
PushStageRan(i) ==
    /\ goal = "build"
    /\ pc[i] \in {"pushWait", "link", "linkWait", "done"}
    /\ HasCall(i, "build")
    /\ CallOf(i, "build").exit = 0

\* C3: with options.push explicitly false and docker build exiting 0, no
\* docker push is issued and the push stage yields code 0.
C3_PushFalseSkipsPush ==
    \A i \in Invocations :
        (PushStageRan(i) /\ registration.push = JsFalse)
        => (~HasCall(i, "push") /\ result[i].code = 0)

\* C4: when the push branch is taken and user or password is absent, the
\* push stage returns code 1 with the configuration-missing message as a
\* result; no docker push is spawned and no image link is called.
C4_MissingPushConfiguration ==
    \A i \in Invocations :
        (/\ PushStageRan(i)
         /\ PushEnabled(options, projectConfig[i])
         /\ (options.user \in {Undefined, ""} \/ options.password \in {Undefined, ""}))
        => /\ Done(i)
           /\ outcome[i] = [kind |-> "result", code |-> 1, message |-> PushConfigurationMissing]
           /\ ~HasCall(i, "push")
           /\ ~HasCall(i, "link")

\* A user without password: the push stage fails for missing configuration.
C4_Witness ==
    \E i \in Invocations :
        /\ PushStageRan(i)
        /\ options.user = "alice"
        /\ options.password = Undefined
        /\ outcome[i].message = PushConfigurationMissing

\* C5: when postLinkImageWebhook returns a falsy value, the goal's result is
\* code 1 with message "Image link failed", and the link call is the last
\* thing the invocation did.
C5_ImageLinkFailed ==
    \A i \in Invocations :
        \A k \in 1..Len(calls[i]) :
            (calls[i][k].stage = "link" /\ calls[i][k].exit = 1)
            => /\ k = Len(calls[i])
               /\ Done(i)
               /\ outcome[i] = [kind |-> "result", code |-> 1, message |-> "Image link failed"]

\* A push that exited 0 followed by an image link that failed.
C5_Witness ==
    \E i \in Invocations :
        /\ HasCall(i, "push")
        /\ CallOf(i, "push").exit = 0
        /\ LastCall(i).stage = "link"
        /\ LastCall(i).exit = 1

ErrorsBeforeDispatch ==
    {UnavailableError("docker"), UnavailableError("/kaniko/executor"), QueryFailed, InvalidUrl,
     NoPassword}

\* C7 as stated: every terminated invocation with builder "kaniko" ended in
\* the explicit "unimplemented" failure.
C7_KanikoAlwaysUnimplemented ==
    \A i \in Invocations :
        (goal = "run" /\ options.builder = "kaniko" /\ Done(i))
        => outcome[i].message = KanikoUnimplemented

\* C7 amended: an invocation with builder "kaniko" never spawns docker run,
\* never calls the image link and never ends in a result; it ends in the
\* "unimplemented" error when it gets to the dispatch, and in the error of
\* the probe or of the registry discovery when one of them fails before.
C7_KanikoNeverSucceeds ==
    \A i \in Invocations :
        (goal = "run" /\ options.builder = "kaniko")
        => /\ ~HasCall(i, "run")
           /\ ~HasCall(i, "link")
           /\ Done(i) =>
                /\ outcome[i].kind = "thrown"
                /\ result[i].code = 0 => outcome[i].message = KanikoUnimplemented
                /\ result[i].code # 0 => outcome[i].message \in ErrorsBeforeDispatch

\* The kaniko probe resolved and the invocation ended in "unimplemented".
C7_Witness ==
    \E i \in Invocations :
        /\ goal = "run"
        /\ options.builder = "kaniko"
        /\ Len(calls[i]) > 0
        /\ calls[i][1].stage = "probe" /\ calls[i][1].exit = 0
        /\ outcome[i] = Thrown(KanikoUnimplemented)

\* Something of invocation i failed: a call, the push configuration, or the
\* selection of kaniko.
SomethingFailed(i) ==
    \/ \E k \in 1..Len(calls[i]) : Failed(calls[i][k])
    \/ result[i].code > 0
    \/ outcome[i].message \in {KanikoUnimplemented, InvalidUrl, NoPassword}

C9_ConfigurationWins ==
    \A i \in Invocations :
        (goal = "run" /\ pc[i] # "idle")
        => /\ (Truthy(options.config) \/ Len(options.registry) > 0)
                => /\ ~HasCall(i, "queryProviders")
                   /\ ~HasCall(i, "queryPassword")
                   /\ optsToUse[i].registry = options.registry
           /\ (HasCall(i, "queryProviders") \/ HasCall(i, "queryPassword"))
                => (~Truthy(options.config) /\ options.registry = << >>)

\* docker run was spawned with a configured registry and no config.
C9_Witness ==
    \E i \in Invocations :
        /\ goal = "run"
        /\ options.config = Undefined
        /\ options.registry = <<RegistryWithLogin>>
        /\ HasCall(i, "run")

\* C10: two invocations of doDockerRun with different goal-set identifiers
\* pass different DOCKER_CONFIG paths to docker run.
C10_ConfigPathPerInvocation ==
    \A i, j \in Invocations :
        (/\ i # j
         /\ goal = "run"
         /\ HasCall(i, "run")
         /\ HasCall(j, "run")
         /\ goalSetId[i] # goalSetId[j])
        => CallOf(i, "run").env # CallOf(j, "run").env

\* C11: with options.push left undefined in local mode and docker build
\* exiting 0, no docker push is issued and the push stage yields code 0.
C11_LocalModeSkipsPush ==
    \A i \in Invocations :
        (PushStageRan(i) /\ registration.push = Undefined /\ localMode)
        => (~HasCall(i, "push") /\ result[i].code = 0)

\* The order of the stages of both executors.
StageOrder ==
    <<"probe", "queryProviders", "queryPassword", "login", "build", "push", "run", "link">>
StageRank(stage) == CHOOSE k \in 1..Len(StageOrder) : StageOrder[k] = stage

\* C12: the calls of an invocation are issued one after another in the order
\* login, build, push, run, link: only the last call can be in flight, every
\* call before it has completed, a login, build, push or run before it with
\* code 0, and no stage is issued twice or out of order.
C12_StagesInSequence ==
    \A i \in Invocations :
        \A k \in 1..(Len(calls[i]) - 1) :
            /\ calls[i][k].exit # Pending
            /\ calls[i][k].stage \in ResultStages => calls[i][k].exit = 0
            /\ \/ StageRank(calls[i][k].stage) < StageRank(calls[i][k + 1].stage)
               \/ /\ calls[i][k].stage = "queryPassword"
                  /\ calls[i][k + 1].stage = "queryPassword"

\* Login, build, push and image link, each issued after the one before exited 0.
C12_Witness ==
    \E i \in Invocations :
        /\ Done(i)
        /\ Len(calls[i]) = 4
        /\ calls[i][1].stage = "login"
        /\ calls[i][2].stage = "build"
        /\ calls[i][3].stage = "push"
        /\ calls[i][4].stage = "link"
        /\ \A k \in 1..4 : calls[i][k].exit = 0

\* C13: every image-link call carries the owner, repository, sha and
\* workspace of the invocation and a defined image reference: in
\* executeDockerBuild the image given to docker build -t and to docker push,
\* in doDockerRun an image that is not undefined.
C13_LinkCarriesImage ==
    \A i \in Invocations :
        \A k \in 1..Len(calls[i]) :
            calls[i][k].stage = "link" =>
                LET c == calls[i][k].command IN
                /\ c[2] = SdmGoal(i).owner
                /\ c[3] = SdmGoal(i).name
                /\ c[4] = SdmGoal(i).sha
                /\ c[6] = SdmGoal(i).workspaceId
                /\ IF goal = "build"
                   THEN /\ c[5] = CallOf(i, "build").command[7]
                        /\ HasCall(i, "push") => c[5] = CallOf(i, "push").command[3]
                   ELSE c[5] # Undefined

\* C14: the options object is never written: at every moment it is what was
\* given at registration.
C14_OptionsNeverWritten == options = registration

\* Calling the image name creator again, at any later moment of the
\* invocation, gives the image reference the invocation computed.
C15_SameReference ==
    \A i \in Invocations :
        (goal = "build" /\ pc[i] # "idle")
        => image[i] = ImageOf(DefaultDockerImageNameCreator(SdmGoal(i), options))

\* The step that calls the image name creator writes nothing but the image
\* and the Dockerfile path of the invocation.
C15_CallIsPure ==
    \A i \in Invocations :
        (pc[i] = "idle" /\ pc'[i] = "login")
        => UNCHANGED <<options, calls, log, result, outcome, goalSetId>>

C16_LoginCommand ==
    \A i \in Invocations :
        HasCall(i, "login") =>
            /\ registration.user # Undefined
            /\ registration.password # Undefined
            /\ CallOf(i, "login").command =
                    <<"docker", "login", "--username", registration.user,
                      "--password", registration.password>>
                        \o (IF registration.registry = "r.io" THEN <<"r.io">> ELSE << >>)

\* A login with the purely alphanumeric registry "hub".
C16_Witness ==
    \E i \in Invocations :
        /\ goal = "build"
        /\ registration.registry = "hub"
        /\ HasCall(i, "login")
        /\ Len(CallOf(i, "login").command) = 6

\* C17: in executeDockerBuild without user or without password, the login
\* stage spawns no docker login, writes the skip notice, yields code 0, and
\* the build stage is next.
C17_LoginSkipped ==
    \A i \in Invocations :
        (/\ goal = "build"
         /\ pc[i] \notin {"idle", "login"}
         /\ (registration.user = Undefined \/ registration.password = Undefined))
        => /\ ~HasCall(i, "login")
           /\ log[i][1] = LoginSkipNotice
           /\ IF pc[i] = "build"
              THEN result[i] = Success /\ calls[i] = << >>
              ELSE calls[i][1].stage = "build"

\* A user without password: login was skipped and docker build was spawned.
C17_Witness ==
    \E i \in Invocations :
        /\ goal = "build"
        /\ registration.user = "alice"
        /\ registration.password = Undefined
        /\ HasCall(i, "build")
        /\ log[i][1] = LoginSkipNotice

\* C18: a rejected credential-store query (the provider query or a password
\* query) is the last call of the invocation: it is not issued again, no
\* docker run and no image link follow, and the invocation has ended in an
\* error, not in a result.
C18_QueryFailureIsFatal ==
    \A i \in Invocations :
        \A k \in 1..Len(calls[i]) :
            (/\ calls[i][k].stage \in {"queryProviders", "queryPassword"}
             /\ calls[i][k].exit = Rejected)
            => /\ k = Len(calls[i])
               /\ Done(i)
               /\ outcome[i].kind = "thrown"
               /\ ~HasCall(i, "run")
               /\ ~HasCall(i, "link")

\* The provider query succeeded and the password query was rejected.
C18_Witness ==
    \E i \in Invocations :
        /\ Done(i)
        /\ Len(calls[i]) > 0
        /\ LastCall(i).stage = "queryPassword"
        /\ LastCall(i).exit = Rejected
        /\ outcome[i].kind = "thrown"

\* readRegistries of invocation i was called and returned a list.
ReadRegistriesReturned(i) ==
    /\ goal = "run"
    /\ HasCall(i, "queryProviders")
    /\ \/ pc[i] \in {"dispatch", "runWait", "link", "linkWait"}
       \/ Done(i) /\ outcome[i].message \notin {QueryFailed, InvalidUrl, NoPassword}

\* The host of the URL of the providers with a URL that parses.
HostOfProvider(name) == IF name = "gcr" THEN "gcr.io" ELSE "quay.io:443"

\* C19: the list readRegistries returns has one credential per provider of
\* the store's answer, in the order of the answer, with registry the host of
\* the provider's URL, user and password the owner's login and the secret of
\* the password fetched for that provider, label the provider's name and
\* display false; with no provider it is the empty list.
C19_ReadRegistries ==
    \A i \in Invocations :
        ReadRegistriesReturned(i) =>
            LET q == CHOOSE k \in 1..Len(calls[i]) : calls[i][k].stage = "queryProviders"
                providers == calls[i][q].response
                found == optsToUse[i].registry
            IN /\ Len(found) = Len(providers)
               /\ \A k \in 1..Len(providers) :
                    /\ calls[i][q + k].stage = "queryPassword"
                    /\ calls[i][q + k].command[2] = providers[k].credential
                    /\ found[k] =
                        [registry |-> HostOfProvider(providers[k].name),
                         user |-> calls[i][q + k].response[1].owner.login,
                         password |-> calls[i][q + k].response[1].secret,
                         label |-> providers[k].name,
                         display |-> "false"]

\* Two providers were discovered and docker run was spawned with them.
C19_Witness ==
    \E i \in Invocations :
        /\ ReadRegistriesReturned(i)
        /\ HasCall(i, "run")
        /\ Len(optsToUse[i].registry) = 2
        /\ optsToUse[i].registry[1].registry = "gcr.io"
        /\ optsToUse[i].registry[2].registry = "quay.io:443"

\* C20: every docker run is spawned with DOCKER_CONFIG set to a path.
C20_DockerConfigDefined ==
    \A i \in Invocations :
        \A k \in 1..Len(calls[i]) :
            calls[i][k].stage = "run" => calls[i][k].env # NoPath

\* C21: docker build is spawned as docker build . -f <dockerfilePath> -t
\* <image>, with the path the Dockerfile finder gives when the options have
\* one and "Dockerfile" when they have none, and with the image
\* <registry>/<name>:<version> when a registry is configured and
\* <name>:<version> when none is.
C21_BuildCommand ==
    \A i \in Invocations :
        HasCall(i, "build") =>
            CallOf(i, "build").command =
                <<"docker", "build", ".", "-f",
                  IF registration.dockerfileFinder = Undefined
                  THEN "Dockerfile" ELSE "docker/Dockerfile",
                  "-t",
                  (IF registration.registry = Undefined
                   THEN << >> ELSE <<registration.registry, "/">>)
                      \o <<"app", ":", <<"1.0.0-", SdmGoal(i).sha>> >> >>

\* A build with a Dockerfile finder and without registry.
C21_Witness ==
    \E i \in Invocations :
        /\ goal = "build"
        /\ registration.dockerfileFinder = "finder"
        /\ registration.registry = Undefined
        /\ HasCall(i, "build")
        /\ CallOf(i, "build").exit = 0

\* C22: with builder "docker", docker run is spawned as docker run, the
\* builderArgs in order, the builderPath, and the programArgs in order.
C22_RunCommand ==
    \A i \in Invocations :
        (goal = "run" /\ HasCall(i, "run"))
        => CallOf(i, "run").command =
                <<"docker", "run">> \o registration.builderArgs
                    \o <<registration.builderPath>> \o registration.programArgs

\* The number of calls of a stage that invocation i issued.
Issued(i, stage) == Cardinality({k \in 1..Len(calls[i]) : calls[i][k].stage = stage})

\* The calls an invocation issues at most once.
OnceStages == {"probe", "queryProviders", "login", "build", "push", "run", "link"}

\* C23: an invocation issues the probe, the provider query, docker login,
\* docker build, docker push, docker run and the image link at most once
\* each, whether they succeed or fail.
C23_NothingIsRetried ==
    \A i \in Invocations :
        \A stage \in OnceStages : Issued(i, stage) <= 1

\* A docker run that failed after the probe and the provider query, neither
\* of them issued again.
C23_Witness ==
    \E i \in Invocations :
        /\ Done(i)
        /\ Len(calls[i]) = 3
        /\ calls[i][1].stage = "probe"
        /\ calls[i][2].stage = "queryProviders"
        /\ calls[i][3].stage = "run"
        /\ Failed(calls[i][3])

\* Invocation i made a call of the stage and it completed with code 0.
Succeeded(i, stage) == HasCall(i, stage) /\ CallOf(i, stage).exit = 0

\* C25: doDockerRun ends with a code-0 result only when its probe succeeded,
\* a docker run was spawned and exited 0, and the image link returned a
\* truthy value, whatever the builder.
C25_SuccessNeedsRun ==
    \A i \in Invocations :
        (goal = "run" /\ Done(i) /\ outcome[i].kind = "result" /\ outcome[i].code = 0)
        => /\ Succeeded(i, "probe")
           /\ Succeeded(i, "run")
           /\ Succeeded(i, "link")

\* The push stage of invocation i was skipped by configuration: the project's
\* docker.push.enabled, or without it the push option, is false.
PushSkippedByConfiguration(i) ==
    /\ ~HasCall(i, "push")
    /\ \E k \in 1..Len(log[i]) : log[i][k] = PushSkipNotice
    /\ \/ projectConfig[i] = JsFalse
       \/ projectConfig[i] = Undefined /\ registration.push = JsFalse

\* C26: executeDockerBuild ends with a code-0 result only when login was
\* skipped for lack of credentials or exited 0, docker build exited 0, docker
\* push was skipped by configuration or spawned with user and password
\* present and exited 0, and the image link returned a truthy value.
C26_SuccessNeedsEveryStage ==
    \A i \in Invocations :
        (goal = "build" /\ Done(i) /\ outcome[i].kind = "result" /\ outcome[i].code = 0)
        => /\ IF HasCall(i, "login")
              THEN CallOf(i, "login").exit = 0
              ELSE /\ registration.user = Undefined \/ registration.password = Undefined
                   /\ log[i][1] = LoginSkipNotice
           /\ Succeeded(i, "build")
           /\ IF HasCall(i, "push")
              THEN /\ CallOf(i, "push").exit = 0
                   /\ registration.user # Undefined
                   /\ registration.password # Undefined
              ELSE PushSkippedByConfiguration(i)
           /\ Succeeded(i, "link")

\* A success without login and without push: no credentials, and the
\* project's configuration disables the push.
C26_Witness ==
    \E i \in Invocations :
        /\ goal = "build"
        /\ Done(i)
        /\ outcome[i].kind = "result"
        /\ outcome[i].code = 0
        /\ ~HasCall(i, "login")
        /\ ~HasCall(i, "push")
====
